---- MODULE Spec2Model ----
(***************************************************************************)
(* Cached login (tryCachedLogin), wallet helpers and the build script of   *)
(* the webmail front end, as state machines.                               *)
(*                                                                         *)
(* Spec        one invocation of tryCachedLogin, from the frame check to   *)
(*             the settling of the default-alias initialisation it starts. *)
(* SpecWallet  abbreviateWalletAddress / createAbbreviatedWalletEmail      *)
(*             applied to bounded inputs.                                  *)
(* SpecEth     activateEthProvider on the wallets a page can have          *)
(*             injected.                                                   *)
(* SpecBuild   the build script: two esbuild builds and the tsc child      *)
(*             process under Promise.all.                                  *)
(*                                                                         *)
(* JavaScript strings that are only compared are TLA+ strings; strings     *)
(* that are sliced are sequences of one-character strings.  An optional    *)
(* value is a sequence of length at most one (<<>> is undefined/null).     *)
(***************************************************************************)
EXTENDS Integers, Sequences, FiniteSets, TLC

VARIABLES
    \* ---- environment of tryCachedLogin
    inFrame,              \* window.location !== window.parent.location
    mobileApp,            \* what isMobileApp() returned (FALSE before the call)
    perUser,              \* localStorage: per-user session cache entries
    legacy,               \* localStorage: legacy SESSION_CACHE entry
    latestUserID,         \* localStorage: id of the latest user
    reloaded,             \* window.location.reload() was called
    shouldReload,         \* what setNextUUID() returned (optional)
    currentUserData,      \* what saveCurrentUserData stored (optional)
    mobileData,           \* what sendUserDataToMobileApp sent (optional)
    \* ---- locals of tryCachedLogin
    pc,
    encryptedSessionCacheData,
    cacheKey,
    alternativeCacheKeys,
    userDataToRefresh,
    queryError,           \* e of the catch block of the query (optional)
    decryptedUser,        \* optional
    altIndex,             \* position of the for..of loop over alternativeCacheKeys
    result,               \* "pending" | "true" | "false"
    \* ---- setDefaultEmailAlias (runs detached)
    aliasState,           \* "idle" | "querying" | "initialized" | "failed"
    defaultAlias,         \* what initializeDefaultEmailAlias received (optional)
    \* ---- history of the calls made, in order
    log,
    \* ---- wallet helpers
    wpc,
    walletAddress,        \* optional sequence of characters
    startChars,           \* optional number
    endChars,             \* optional number
    mailDomain,
    abbreviated,
    walletEmail,
    \* ---- Ethereum provider selection
    epc,
    ethereum,             \* window.ethereum (optional)
    providerName,         \* argument of activateEthProvider
    provider,             \* what getEthProvider returned
    selectedProvider,     \* what ethereum.setSelectedProvider last received (optional)
    setSelectedCalls,     \* number of calls of ethereum.setSelectedProvider
    ethThrew,             \* a property of an undefined window.ethereum was read
    ethReturned,          \* what activateEthProvider returned
    \* ---- build script
    watch,                \* WATCH = !!process.env.WATCH
    cjsBuild,             \* promise of esbuild.build(esbuildConf('cjs'))
    esmBuild,             \* promise of esbuild.build(esbuildConf('esm'))
    childEvents,          \* events the tsc child process emitted, in order
    tscPromise,           \* promise returned by spawn
    tscSettlements,       \* number of times tscPromise changed state
    allPromise,           \* promise of Promise.all([...])
    processExit           \* code given to process.exit (optional)

loginVars == <<inFrame, mobileApp, perUser, legacy, latestUserID, reloaded,
               shouldReload,
               currentUserData, mobileData, pc, encryptedSessionCacheData,
               cacheKey, alternativeCacheKeys, userDataToRefresh, queryError,
               decryptedUser, altIndex, result, aliasState, defaultAlias, log>>

walletVars == <<wpc, walletAddress, startChars, endChars, mailDomain,
                abbreviated, walletEmail>>

ethVars == <<epc, ethereum, providerName, provider, selectedProvider,
             setSelectedCalls, ethThrew, ethReturned>>

buildVars == <<watch, cjsBuild, esmBuild, childEvents, tscPromise,
               tscSettlements, allPromise, processExit>>

vars == <<loginVars, walletVars, ethVars, buildVars>>

\* what a step of one component leaves alone
nonLoginVars == <<walletVars, ethVars, buildVars>>
nonWalletVars == <<loginVars, ethVars, buildVars>>
nonEthVars == <<loginVars, walletVars, buildVars>>
nonBuildVars == <<loginVars, walletVars, ethVars>>

----------------------------------------------------------------------------
\* Bounds

MaxAlt == 2          \* longest list of alternative cache keys
MaxErrors == 2       \* longest list of GraphQL errors in an ApolloError
MaxAddrLen == 10     \* longest wallet address
MaxChars == 2        \* largest startChars / endChars argument
MaxProviders == 2    \* longest ethereum.providers list

BoundedSeq(S, n) == UNION {[1..m -> S] : m \in 0..n}

Min(a, b) == IF a < b THEN a ELSE b
Max(a, b) == IF a > b THEN a ELSE b

----------------------------------------------------------------------------
\* Values

Undef == "undefined"
Null == "null"
EmptyStr == ""

Keys == {"k1", "k2"}
NoKey == "-"
UserIDs == {"u1", "u2"}
NoUserID == "-"

\* models.User as cached for `id`
CachedUser(id) ==
    [userID |-> id,
     recoveryEmail |-> "cached",
     unverifiedRecoveryEmail |-> "cached",
     walletAddress |-> "cached",
     rootOrgID |-> "cached",
     publicData |-> "cached"]

NoUserRec == [CachedUser(NoUserID) EXCEPT !.recoveryEmail = Undef,
                 !.unverifiedRecoveryEmail = Undef, !.walletAddress = Undef,
                 !.rootOrgID = Undef, !.publicData = Undef]

\* An entry of local storage: absent, a session cache encrypted under a key,
\* or bytes that no key decrypts.
NoBlob == [kind |-> "none", key |-> NoKey, user |-> NoUserRec]
GarbageBlob == [kind |-> "garbage", key |-> NoKey, user |-> NoUserRec]

\* GetSessionCacheQuery['currentUser']
NoCurrentUser ==
    [present |-> FALSE, recoveryEmail |-> Undef, unverifiedRecoveryEmail |-> Undef,
     walletAddress |-> Undef, rootOrgID |-> Undef, publicData |-> Undef]

ServerUsers ==
    [present : {TRUE},
     recoveryEmail : {Undef, Null, "server"},
     unverifiedRecoveryEmail : {Undef, Null},
     walletAddress : {Undef, Null, EmptyStr, "server"},
     rootOrgID : {Undef, Null, "server"},
     publicData : {"server"}]

\* e in `catch (e)`: an ApolloError carries graphQLErrors
ErrorCodes == {"NotFound", "BadRequest", "NotAuthorized", "Other"}
Errors == [apollo : {TRUE}, graphQLErrors : BoundedSeq(ErrorCodes, MaxErrors)]
              \cup {[apollo |-> FALSE, graphQLErrors |-> <<>>]}

Entry(op, key, blob) == [op |-> op, key |-> key, blob |-> blob]
Ev(op) == Entry(op, NoKey, NoBlob)

----------------------------------------------------------------------------
\* Collaborators of tryCachedLogin

\* The session cache of `user`, encrypted under `key`
EncryptSessionCacheData(user, key) == [kind |-> "enc", key |-> key, user |-> user]

\* decryptSessionCacheData(blob, key).user, or <<>> when the call throws
DecryptSessionCacheData(blob, key) ==
    IF blob.kind = "enc" /\ blob.key = key THEN <<blob.user>> ELSE <<>>

\* getSessionCacheForLatestUser(): the per-user entry of the latest user,
\* else the legacy entry
getSessionCacheForLatestUser ==
    IF latestUserID # NoUserID /\ perUser[latestUserID] # NoBlob
    THEN perUser[latestUserID]
    ELSE legacy

\* writeSessionCacheData(sessionCacheData, key): the per-user entries afterwards
\* (the call is taken to complete: a storage write that throws is not modelled)
writeSessionCacheData(user, key) ==
    [perUser EXCEPT ![user.userID] = EncryptSessionCacheData(user, key)]

\* clearLatestUserIDCache(): storage afterwards
clearLatestUserIDCache ==
    [perUser |-> IF latestUserID # NoUserID
                 THEN [perUser EXCEPT ![latestUserID] = NoBlob]
                 ELSE perUser,
     legacy |-> NoBlob,
     latestUserID |-> NoUserID]

\* setNextUUID() on storage `st`: the ids it may select (none: it returns false)
setNextUUID(st) == {u \in UserIDs : st.perUser[u] # NoBlob}

\* isApolloLogicErrorType(e.graphQLErrors[0], T) for T in NotFound,
\* BadRequest, NotAuthorized
isApolloLogicErrorType(errs, type) == Len(errs) > 0 /\ errs[1] = type

Truthy(v) == v \notin {Undef, Null, EmptyStr}

----------------------------------------------------------------------------
\* tryCachedLogin

\* variant: any GraphQL error of the list counts, not only the first
IsInvalidSessionCache_AnyError(e) ==
    /\ e.apollo
    /\ \E i \in DOMAIN e.graphQLErrors :
          e.graphQLErrors[i] \in {"NotFound", "BadRequest", "NotAuthorized"}

\* the condition of the catch block of the server query
IsInvalidSessionCache(e) ==
    /\ e.apollo
    /\ \/ isApolloLogicErrorType(e.graphQLErrors, "NotFound")
       \/ isApolloLogicErrorType(e.graphQLErrors, "BadRequest")
       \/ isApolloLogicErrorType(e.graphQLErrors, "NotAuthorized")

\* "Refresh critical data on user load": the user after the refresh
RefreshUser(u, r) ==
    IF ~r.present THEN u
    ELSE [u EXCEPT
            !.recoveryEmail = IF r.recoveryEmail # Undef THEN r.recoveryEmail ELSE @,
            !.unverifiedRecoveryEmail =
                IF r.unverifiedRecoveryEmail # Undef THEN r.unverifiedRecoveryEmail ELSE @,
            !.walletAddress = IF Truthy(r.walletAddress) THEN r.walletAddress ELSE @,
            !.rootOrgID = IF Truthy(r.rootOrgID) THEN r.rootOrgID ELSE @,
            !.publicData = r.publicData]

\* variant: the page reloads whatever setNextUUID returned
setNextIDAndReload_AlwaysReload(lg) ==
    LET st == clearLatestUserIDCache
        next == setNextUUID(st)
    IN  /\ perUser' = st.perUser
        /\ legacy' = st.legacy
        /\ shouldReload' = <<next # {}>>
        /\ IF next = {}
           THEN /\ latestUserID' = st.latestUserID
                /\ reloaded' = TRUE
                /\ log' = lg \o <<Ev("clearLatestUserIDCache"), Ev("setNextUUID"),
                                  Ev("reload")>>
           ELSE /\ latestUserID' \in next
                /\ reloaded' = TRUE
                /\ log' = lg \o <<Ev("clearLatestUserIDCache"), Ev("setNextUUID"),
                                  Ev("reload")>>

\* setNextIDAndReload(), appending its calls to the history `lg`
setNextIDAndReload(lg) ==
    LET st == clearLatestUserIDCache
        next == setNextUUID(st)
    IN  /\ perUser' = st.perUser
        /\ legacy' = st.legacy
        /\ shouldReload' = <<next # {}>>
        /\ IF next = {}
           THEN /\ latestUserID' = st.latestUserID
                /\ reloaded' = reloaded
                /\ log' = lg \o <<Ev("clearLatestUserIDCache"), Ev("setNextUUID")>>
           ELSE /\ latestUserID' \in next
                /\ reloaded' = TRUE
                /\ log' = lg \o <<Ev("clearLatestUserIDCache"), Ev("setNextUUID"),
                                  Ev("reload")>>

\* variant: the frame test is missing
FrameCheck_NoSkip ==
    /\ pc = "start"
    /\ IF FALSE
       THEN pc' = "done" /\ result' = "false"
       ELSE pc' = "read" /\ result' = result
    /\ UNCHANGED <<nonLoginVars, queryError, shouldReload>>
    /\ UNCHANGED <<inFrame, mobileApp, perUser, legacy, latestUserID, reloaded,
                   currentUserData, mobileData, encryptedSessionCacheData, cacheKey,
                   alternativeCacheKeys, userDataToRefresh, decryptedUser, altIndex,
                   aliasState, defaultAlias, log>>

\* if (window.location !== window.parent.location) return false
FrameCheck ==
    /\ pc = "start"
    /\ IF inFrame
       THEN pc' = "done" /\ result' = "false"
       ELSE pc' = "read" /\ result' = result
    /\ UNCHANGED <<nonLoginVars, queryError, shouldReload>>
    /\ UNCHANGED <<inFrame, mobileApp, perUser, legacy, latestUserID, reloaded,
                   currentUserData, mobileData, encryptedSessionCacheData, cacheKey,
                   alternativeCacheKeys, userDataToRefresh, decryptedUser, altIndex,
                   aliasState, defaultAlias, log>>

\* variant: the query is issued before the blob is read
ReadSessionCache_QueryFirst ==
    /\ pc = "read"
    /\ encryptedSessionCacheData' = getSessionCacheForLatestUser
    /\ IF encryptedSessionCacheData' = NoBlob
       THEN /\ pc' = "done"
            /\ result' = "false"
            /\ log' = log \o <<Ev("getSessionCacheForLatestUser")>>
       ELSE /\ pc' = "query"
            /\ result' = result
            /\ log' = log \o <<Ev("query"), Ev("getSessionCacheForLatestUser")>>
    /\ UNCHANGED <<nonLoginVars, queryError, shouldReload>>
    /\ UNCHANGED <<inFrame, mobileApp, perUser, legacy, latestUserID, reloaded,
                   currentUserData, mobileData, cacheKey, alternativeCacheKeys,
                   userDataToRefresh, decryptedUser, altIndex, aliasState,
                   defaultAlias>>

\* const encryptedSessionCacheData = getSessionCacheForLatestUser(); on a
\* blob the server query is issued
ReadSessionCache ==
    /\ pc = "read"
    /\ encryptedSessionCacheData' = getSessionCacheForLatestUser
    /\ IF encryptedSessionCacheData' = NoBlob
       THEN /\ pc' = "done"
            /\ result' = "false"
            /\ log' = log \o <<Ev("getSessionCacheForLatestUser")>>
       ELSE /\ pc' = "query"
            /\ result' = result
            /\ log' = log \o <<Ev("getSessionCacheForLatestUser"), Ev("query")>>
    /\ UNCHANGED <<nonLoginVars, queryError, shouldReload>>
    /\ UNCHANGED <<inFrame, mobileApp, perUser, legacy, latestUserID, reloaded,
                   currentUserData, mobileData, cacheKey, alternativeCacheKeys,
                   userDataToRefresh, decryptedUser, altIndex, aliasState,
                   defaultAlias>>

\* the awaited query resolves
QueryResolves(key, alts, user) ==
    /\ pc = "query"
    /\ cacheKey' = key
    /\ alternativeCacheKeys' = alts
    /\ userDataToRefresh' = user
    /\ pc' = "primary"
    /\ log' = log \o <<Ev("queryResolved")>>
    /\ UNCHANGED <<nonLoginVars, queryError, shouldReload>>
    /\ UNCHANGED <<inFrame, mobileApp, perUser, legacy, latestUserID, reloaded,
                   currentUserData, mobileData, encryptedSessionCacheData,
                   decryptedUser, altIndex, result, aliasState, defaultAlias>>

\* the awaited query rejects with e: the catch block
QueryRejects(e) ==
    /\ pc = "query"
    /\ queryError' = <<e>>
    /\ IF IsInvalidSessionCache(e)
       THEN setNextIDAndReload(log \o <<Ev("queryRejected")>>)
       ELSE /\ log' = log \o <<Ev("queryRejected")>>
            /\ UNCHANGED <<perUser, legacy, latestUserID, reloaded, shouldReload>>
    /\ pc' = "done"
    /\ result' = "false"
    /\ UNCHANGED nonLoginVars
    /\ UNCHANGED <<inFrame, mobileApp, currentUserData, mobileData,
                   encryptedSessionCacheData, cacheKey, alternativeCacheKeys,
                   userDataToRefresh, decryptedUser, altIndex, aliasState,
                   defaultAlias>>

\* variant: the format is migrated whether or not the per-user entry exists
NeedsMigration_Always(user) == TRUE

\* if (localStorage.getItem(getSessionCacheKeyForUserID(user.userID)) === null)
NeedsMigration(user) == perUser[user.userID] = NoBlob

\* variant: the cache is re-encrypted with the key that decrypted it
ReencryptionKey_Alternative(alternativeCacheKey) == alternativeCacheKey

\* the key writeSessionCacheData is given after alternativeCacheKey decrypted
ReencryptionKey(alternativeCacheKey) == cacheKey

\* first try: decrypt with the cache key of the session; on success migrate
\* the storage format when the user has no per-user entry
TryPrimaryKey ==
    /\ pc = "primary"
    /\ LET d == DecryptSessionCacheData(encryptedSessionCacheData, cacheKey)
           tried == log \o <<Entry("decrypt", cacheKey, encryptedSessionCacheData)>>
       IN  /\ decryptedUser' = d
           /\ IF d = <<>>
              THEN /\ pc' = "alt"
                   /\ log' = tried
                   /\ UNCHANGED <<perUser, legacy>>
              ELSE /\ pc' = "refresh"
                   /\ IF NeedsMigration(d[1])
                      THEN /\ perUser' = writeSessionCacheData(d[1], cacheKey)
                           /\ legacy' = NoBlob
                           /\ log' = tried \o
                                 <<Entry("writeSessionCacheData", cacheKey,
                                         EncryptSessionCacheData(d[1], cacheKey)),
                                   Ev("removeLegacy")>>
                      ELSE /\ log' = tried
                           /\ UNCHANGED <<perUser, legacy>>
    /\ UNCHANGED <<nonLoginVars, queryError, shouldReload>>
    /\ UNCHANGED <<inFrame, mobileApp, latestUserID, reloaded, currentUserData,
                   mobileData, encryptedSessionCacheData, cacheKey,
                   alternativeCacheKeys, userDataToRefresh, altIndex, result,
                   aliasState, defaultAlias>>

\* variant: the loop goes on after a key decrypted the blob
TryAlternativeKey_NoBreak ==
    /\ pc = "alt"
    /\ altIndex <= Len(alternativeCacheKeys)
    /\ LET alternativeCacheKey == alternativeCacheKeys[altIndex]
           d == DecryptSessionCacheData(encryptedSessionCacheData, alternativeCacheKey)
           tried == log \o <<Entry("decrypt", alternativeCacheKey,
                                   encryptedSessionCacheData)>>
       IN  /\ decryptedUser' = d
           /\ IF d = <<>>
              THEN /\ altIndex' = altIndex + 1
                   /\ pc' = "alt"
                   /\ log' = tried
                   /\ UNCHANGED perUser
              ELSE /\ altIndex' = altIndex + 1
                   /\ pc' = IF altIndex < Len(alternativeCacheKeys)
                            THEN "alt" ELSE "refresh"
                   /\ perUser' = writeSessionCacheData(d[1],
                                     ReencryptionKey(alternativeCacheKey))
                   /\ log' = tried \o
                         <<Entry("writeSessionCacheData",
                                 ReencryptionKey(alternativeCacheKey),
                                 EncryptSessionCacheData(d[1],
                                     ReencryptionKey(alternativeCacheKey)))>>
    /\ UNCHANGED <<nonLoginVars, queryError, shouldReload>>
    /\ UNCHANGED <<inFrame, mobileApp, legacy, latestUserID, reloaded,
                   currentUserData, mobileData, encryptedSessionCacheData, cacheKey,
                   alternativeCacheKeys, userDataToRefresh, result, aliasState,
                   defaultAlias>>

\* one iteration of the loop over alternativeCacheKeys; a key that decrypts
\* re-encrypts the cache with cacheKey and leaves the loop
TryAlternativeKey ==
    /\ pc = "alt"
    /\ altIndex <= Len(alternativeCacheKeys)
    /\ LET alternativeCacheKey == alternativeCacheKeys[altIndex]
           d == DecryptSessionCacheData(encryptedSessionCacheData, alternativeCacheKey)
           tried == log \o <<Entry("decrypt", alternativeCacheKey,
                                   encryptedSessionCacheData)>>
       IN  /\ decryptedUser' = d
           /\ IF d = <<>>
              THEN /\ altIndex' = altIndex + 1
                   /\ pc' = "alt"
                   /\ log' = tried
                   /\ UNCHANGED perUser
              ELSE /\ altIndex' = altIndex
                   /\ pc' = "refresh"
                   /\ perUser' = writeSessionCacheData(d[1],
                                     ReencryptionKey(alternativeCacheKey))
                   /\ log' = tried \o
                         <<Entry("writeSessionCacheData",
                                 ReencryptionKey(alternativeCacheKey),
                                 EncryptSessionCacheData(d[1],
                                     ReencryptionKey(alternativeCacheKey)))>>
    /\ UNCHANGED <<nonLoginVars, queryError, shouldReload>>
    /\ UNCHANGED <<inFrame, mobileApp, legacy, latestUserID, reloaded,
                   currentUserData, mobileData, encryptedSessionCacheData, cacheKey,
                   alternativeCacheKeys, userDataToRefresh, result, aliasState,
                   defaultAlias>>

\* variant: returns true after moving to another user
NoKeyDecrypts_ReturnsTrue ==
    /\ pc = "alt"
    /\ altIndex > Len(alternativeCacheKeys)
    /\ setNextIDAndReload(log)
    /\ pc' = "done"
    /\ result' = "true"
    /\ UNCHANGED <<nonLoginVars, queryError>>
    /\ UNCHANGED <<inFrame, mobileApp, currentUserData, mobileData,
                   encryptedSessionCacheData, cacheKey, alternativeCacheKeys,
                   userDataToRefresh, decryptedUser, altIndex, aliasState,
                   defaultAlias>>

\* no key decrypted the blob: move to another user and return false
NoKeyDecrypts ==
    /\ pc = "alt"
    /\ altIndex > Len(alternativeCacheKeys)
    /\ setNextIDAndReload(log)
    /\ pc' = "done"
    /\ result' = "false"
    /\ UNCHANGED <<nonLoginVars, queryError>>
    /\ UNCHANGED <<inFrame, mobileApp, currentUserData, mobileData,
                   encryptedSessionCacheData, cacheKey, alternativeCacheKeys,
                   userDataToRefresh, decryptedUser, altIndex, aliasState,
                   defaultAlias>>

\* refresh the decrypted user from the server's data and save it
RefreshAndSave ==
    /\ pc = "refresh"
    /\ decryptedUser' = <<RefreshUser(decryptedUser[1], userDataToRefresh)>>
    /\ currentUserData' = decryptedUser'
    /\ log' = log \o <<Ev("saveCurrentUserData")>>
    /\ pc' = "mobile"
    /\ UNCHANGED <<nonLoginVars, queryError, shouldReload>>
    /\ UNCHANGED <<inFrame, mobileApp, perUser, legacy, latestUserID, reloaded,
                   mobileData, encryptedSessionCacheData, cacheKey,
                   alternativeCacheKeys, userDataToRefresh, altIndex, result,
                   aliasState, defaultAlias>>

\* variant: the user data is sent whatever isMobileApp() returns
NotifyMobileApp_Always(isMobileApp) ==
    /\ pc = "mobile"
    /\ mobileApp' = isMobileApp
    /\ IF TRUE
       THEN /\ mobileData' = decryptedUser
            /\ log' = log \o <<Ev("sendUserDataToMobileApp")>>
       ELSE UNCHANGED <<mobileData, log>>
    /\ pc' = "alias"
    /\ UNCHANGED <<nonLoginVars, queryError, shouldReload>>
    /\ UNCHANGED <<inFrame, perUser, legacy, latestUserID, reloaded,
                   currentUserData, encryptedSessionCacheData, cacheKey,
                   alternativeCacheKeys, userDataToRefresh, decryptedUser, altIndex,
                   result, aliasState, defaultAlias>>

\* if (isMobileApp()) sendUserDataToMobileApp(decryptedUser)
NotifyMobileApp(isMobileApp) ==
    /\ pc = "mobile"
    /\ mobileApp' = isMobileApp
    /\ IF isMobileApp
       THEN /\ mobileData' = decryptedUser
            /\ log' = log \o <<Ev("sendUserDataToMobileApp")>>
       ELSE UNCHANGED <<mobileData, log>>
    /\ pc' = "alias"
    /\ UNCHANGED <<nonLoginVars, queryError, shouldReload>>
    /\ UNCHANGED <<inFrame, perUser, legacy, latestUserID, reloaded,
                   currentUserData, encryptedSessionCacheData, cacheKey,
                   alternativeCacheKeys, userDataToRefresh, decryptedUser, altIndex,
                   result, aliasState, defaultAlias>>

\* void setDefaultEmailAlias(); return true
StartDefaultEmailAlias ==
    /\ pc = "alias"
    /\ aliasState' = "querying"
    /\ log' = log \o <<Ev("setDefaultEmailAlias")>>
    /\ pc' = "done"
    /\ result' = "true"
    /\ UNCHANGED <<nonLoginVars, queryError, shouldReload>>
    /\ UNCHANGED <<inFrame, mobileApp, perUser, legacy, latestUserID, reloaded,
                   currentUserData, mobileData, encryptedSessionCacheData, cacheKey,
                   alternativeCacheKeys, userDataToRefresh, decryptedUser, altIndex,
                   defaultAlias>>

----------------------------------------------------------------------------
\* setDefaultEmailAlias, after its query was issued

EmailAliasLists == {<<>>, <<"alias@skiff.com">>}

\* the aliases query resolves: initializeDefaultEmailAlias(user.userID, emailAliases)
AliasQueryResolves(emailAliases) ==
    /\ aliasState = "querying"
    /\ IF currentUserData = <<>>
       THEN aliasState' = "failed" /\ UNCHANGED defaultAlias
       ELSE /\ aliasState' = "initialized"
            /\ defaultAlias' = <<[userID |-> currentUserData[1].userID,
                                  emailAliases |-> emailAliases]>>
    /\ UNCHANGED <<nonLoginVars, queryError, shouldReload>>
    /\ UNCHANGED <<inFrame, mobileApp, perUser, legacy, latestUserID, reloaded,
                   currentUserData, mobileData, pc, encryptedSessionCacheData,
                   cacheKey, alternativeCacheKeys, userDataToRefresh, decryptedUser,
                   altIndex, result, log>>

\* the aliases query rejects: the detached promise rejects
AliasQueryRejects ==
    /\ aliasState = "querying"
    /\ aliasState' = "failed"
    /\ UNCHANGED <<nonLoginVars, queryError, shouldReload>>
    /\ UNCHANGED <<inFrame, mobileApp, perUser, legacy, latestUserID, reloaded,
                   currentUserData, mobileData, pc, encryptedSessionCacheData,
                   cacheKey, alternativeCacheKeys, userDataToRefresh, decryptedUser,
                   altIndex, result, defaultAlias, log>>

----------------------------------------------------------------------------
\* Specification of one invocation of tryCachedLogin

\* a value of getEthProvider: undefined, window.ethereum itself, or the
\* index-th object of ethereum.providers
UndefinedProvider == [kind |-> "undefined", index |-> 0]
EthereumItself == [kind |-> "ethereum", index |-> 0]
Listed(i) == [kind |-> "listed", index |-> i]

EthIdle ==
    /\ epc = "idle"
    /\ ethereum = <<>>
    /\ providerName = "Other"
    /\ provider = UndefinedProvider
    /\ selectedProvider = <<>>
    /\ setSelectedCalls = 0
    /\ ethThrew = FALSE
    /\ ethReturned = <<>>

BuildIdle ==
    /\ watch = FALSE
    /\ cjsBuild = "pending"
    /\ esmBuild = "pending"
    /\ childEvents = <<>>
    /\ tscPromise = "pending"
    /\ tscSettlements = 0
    /\ allPromise = "unstarted"
    /\ processExit = <<>>

WalletIdle ==
    /\ wpc = "idle"
    /\ walletAddress = <<>>
    /\ startChars = <<>>
    /\ endChars = <<>>
    /\ mailDomain = <<>>
    /\ abbreviated = <<>>
    /\ walletEmail = <<>>

\* what local storage can hold for the latest user before a login
StoredBlobs == {NoBlob, GarbageBlob, EncryptSessionCacheData(CachedUser("u1"), "k1")}

LoginInit ==
    /\ inFrame \in BOOLEAN
    /\ mobileApp = FALSE
    /\ perUser \in {f \in [UserIDs -> StoredBlobs \cup
                                 {EncryptSessionCacheData(CachedUser("u2"), "k2")}] :
                        /\ f["u1"] \in StoredBlobs
                        /\ f["u2"] \notin StoredBlobs \ {NoBlob}}
    /\ legacy \in StoredBlobs
    /\ latestUserID = IF perUser["u1"] # NoBlob THEN "u1" ELSE NoUserID
    /\ reloaded = FALSE
    /\ shouldReload = <<>>
    /\ currentUserData = <<>>
    /\ mobileData = <<>>
    /\ pc = "start"
    /\ encryptedSessionCacheData = NoBlob
    /\ cacheKey = NoKey
    /\ alternativeCacheKeys = <<>>
    /\ userDataToRefresh = NoCurrentUser
    /\ queryError = <<>>
    /\ decryptedUser = <<>>
    /\ altIndex = 1
    /\ result = "pending"
    /\ aliasState = "idle"
    /\ defaultAlias = <<>>
    /\ log = <<>>

Init == LoginInit /\ WalletIdle /\ EthIdle /\ BuildIdle

Next ==
    \/ FrameCheck
    \/ ReadSessionCache
    \/ \E key \in Keys, alts \in BoundedSeq(Keys, MaxAlt),
          user \in ServerUsers \cup {NoCurrentUser} : QueryResolves(key, alts, user)
    \/ \E e \in Errors : QueryRejects(e)
    \/ TryPrimaryKey
    \/ TryAlternativeKey
    \/ NoKeyDecrypts
    \/ RefreshAndSave
    \/ \E isMobileApp \in BOOLEAN : NotifyMobileApp(isMobileApp)
    \/ StartDefaultEmailAlias
    \/ \E emailAliases \in EmailAliasLists : AliasQueryResolves(emailAliases)
    \/ AliasQueryRejects

Spec == Init /\ [][Next]_vars

----------------------------------------------------------------------------
\* Wallet helpers (walletUtils.ts)

DefaultStartChars == 3
DefaultEndChars == 4
PrefixChars == 2

\* x ?? d
Coalesce(x, d) == IF x = <<>> THEN d ELSE x[1]

\* an index argument of String.prototype.slice, relative to a string of
\* length len
RelativeIndex(i, len) == IF i < 0 THEN Max(len + i, 0) ELSE Min(i, len)

\* str.slice(start, end)
Slice(str, start, end) ==
    LET from == RelativeIndex(start, Len(str))
        to == RelativeIndex(end, Len(str))
    IN  IF from < to THEN SubSeq(str, from + 1, to) ELSE <<>>

\* str.slice(start)
SliceFrom(str, start) == Slice(str, start, Len(str))

Ellipsis == <<".", ".", ".">>

\* abbreviateWalletAddress(walletAddress, startChars, endChars); addr is
\* optional, and so are the two numbers
abbreviateWalletAddress(addr, start, end) ==
    IF addr = <<>> \/ addr[1] = <<>> THEN <<>>
    ELSE Slice(addr[1], 0, PrefixChars + Coalesce(start, DefaultStartChars))
             \o Ellipsis
             \o SliceFrom(addr[1], 0 - Coalesce(end, DefaultEndChars))

\* createEmail(alias, mailDomain)
createEmail(alias, domain) == alias \o <<"@">> \o domain

\* createAbbreviatedWalletEmail(walletAddr, mailDomain)
createAbbreviatedWalletEmail(addr, domain) ==
    createEmail(abbreviateWalletAddress(<<addr>>, <<>>, <<>>), domain)

\* a caller abbreviates the address
Abbreviate ==
    /\ wpc = "input"
    /\ abbreviated' = abbreviateWalletAddress(walletAddress, startChars, endChars)
    /\ wpc' = "abbreviated"
    /\ UNCHANGED <<walletAddress, startChars, endChars, mailDomain, walletEmail>>
    /\ UNCHANGED nonWalletVars

\* a caller builds the abbreviated wallet e-mail address
AbbreviateEmail ==
    /\ wpc = "input"
    /\ walletAddress # <<>>
    /\ walletEmail' = createAbbreviatedWalletEmail(walletAddress[1], mailDomain)
    /\ wpc' = "email"
    /\ UNCHANGED <<walletAddress, startChars, endChars, mailDomain, abbreviated>>
    /\ UNCHANGED nonWalletVars

AddressChars == <<"0", "x", "d", "D", "a", "b", "3", "E">>

\* the address of length n that starts at the k-th address character
Address(k, n) ==
    [i \in 1..n |-> AddressChars[((k + i - 2) % Len(AddressChars)) + 1]]

Addresses == {Address(k, n) : k \in {1, 3}, n \in 0..MaxAddrLen}

OptionalCount == {<<>>} \cup {<<n>> : n \in 0..MaxChars}

LoginIdle ==
    /\ inFrame = TRUE
    /\ mobileApp = FALSE
    /\ perUser = [u \in UserIDs |-> NoBlob]
    /\ legacy = NoBlob
    /\ latestUserID = NoUserID
    /\ reloaded = FALSE
    /\ shouldReload = <<>>
    /\ currentUserData = <<>>
    /\ mobileData = <<>>
    /\ pc = "start"
    /\ encryptedSessionCacheData = NoBlob
    /\ cacheKey = NoKey
    /\ alternativeCacheKeys = <<>>
    /\ userDataToRefresh = NoCurrentUser
    /\ queryError = <<>>
    /\ decryptedUser = <<>>
    /\ altIndex = 1
    /\ result = "pending"
    /\ aliasState = "idle"
    /\ defaultAlias = <<>>
    /\ log = <<>>

WalletInit ==
    /\ wpc = "input"
    /\ walletAddress \in {<<>>} \cup {<<a>> : a \in Addresses}
    /\ startChars \in OptionalCount
    /\ endChars \in OptionalCount
    /\ mailDomain \in {<<"s", ".", "t">>}
    /\ abbreviated = <<>>
    /\ walletEmail = <<>>

WalletNext == Abbreviate \/ AbbreviateEmail

WalletSpecInit == LoginIdle /\ WalletInit /\ EthIdle /\ BuildIdle

SpecWallet == WalletSpecInit /\ [][WalletNext]_vars

----------------------------------------------------------------------------
\* C6: with default arguments abbreviateWalletAddress(addr) is the first five
\* characters of addr, '...', and the last four characters of addr, for every
\* non-empty addr; with startChars/endChars given it is the first
\* 2+startChars characters, '...', and the last endChars characters; for an
\* undefined or empty addr it is the empty string.
\* createAbbreviatedWalletEmail(addr, domain) is the default abbreviation
\* followed by '@' and domain.
FirstChars(str, n) == SubSeq(str, 1, Min(n, Len(str)))
LastChars(str, n) == SubSeq(str, Len(str) - Min(n, Len(str)) + 1, Len(str))

ClaimedAbbreviation(addr, start, end) ==
    IF addr = <<>> \/ addr[1] = <<>> THEN <<>>
    ELSE FirstChars(addr[1], 2 + (IF start = <<>> THEN 3 ELSE start[1]))
             \o <<".", ".", ".">>
             \o LastChars(addr[1], IF end = <<>> THEN 4 ELSE end[1])

C6_Abbreviation ==
    /\ wpc = "abbreviated" =>
          abbreviated = ClaimedAbbreviation(walletAddress, startChars, endChars)
    /\ wpc = "email" =>
          walletEmail = ClaimedAbbreviation(walletAddress, <<>>, <<>>)
                            \o <<"@">> \o mailDomain

----------------------------------------------------------------------------
\* Reading the history

Count(op) == Cardinality({i \in DOMAIN log : log[i].op = op})
Called(op) == \E i \in DOMAIN log : log[i].op = op
Positions(op) == {i \in DOMAIN log : log[i].op = op}
Decrypts == SelectSeq(log, LAMBDA e : e.op = "decrypt")
Writes == SelectSeq(log, LAMBDA e : e.op = "writeSessionCacheData")
Range(f) == {f[i] : i \in DOMAIN f}

\* some decryption attempt made so far produced a user
DecryptedBySomeKey ==
    \E i \in DOMAIN Decrypts :
        DecryptSessionCacheData(Decrypts[i].blob, Decrypts[i].key) # <<>>

\* the keys the server returned cannot decrypt the blob that was read
NoServerKeyDecrypts ==
    \A k \in {cacheKey} \cup Range(alternativeCacheKeys) :
        DecryptSessionCacheData(encryptedSessionCacheData, k) = <<>>

----------------------------------------------------------------------------
\* C1: tryCachedLogin resolves to true exactly when a key of the server
\* (the primary or an alternative one) decrypted the cached blob to a user and
\* that user was handed to saveCurrentUserData; in the other outcomes (in a
\* frame, no blob, query failed, no key decrypts) it resolves to false and
\* saveCurrentUserData is never called.
C1_ResultIffDecryptedAndSaved ==
    /\ pc = "done" => result \in {"true", "false"}
    /\ result = "true" <=>
          /\ pc = "done"
          /\ DecryptedBySomeKey
          /\ decryptedUser # <<>>
          /\ currentUserData = decryptedUser
          /\ Count("saveCurrentUserData") = 1
    /\ result = "false" =>
          /\ currentUserData = <<>>
          /\ ~Called("saveCurrentUserData")
          /\ \/ inFrame
             \/ encryptedSessionCacheData = NoBlob
             \/ Called("queryRejected")
             \/ Called("queryResolved") /\ NoServerKeyDecrypts
    /\ Called("saveCurrentUserData") => DecryptedBySomeKey

C1_Witness ==
    /\ result = "true"
    /\ Len(Decrypts) > 1
    /\ currentUserData # <<>>

----------------------------------------------------------------------------
----------------------------------------------------------------------------
----------------------------------------------------------------------------
\* C4: on a successful login with current-user data from the server, each of
\* recoveryEmail, unverifiedRecoveryEmail, walletAddress and rootOrgID of the
\* saved user is the server's value when that is null or defined and the
\* cached value only when it is undefined; publicData is the server's value.
\* Without current-user data the saved user is the decrypted user.
ClaimedRefresh(cached, server, field) ==
    IF server[field] # Undef THEN server[field] ELSE cached[field]

C4_RefreshedFields ==
    Called("saveCurrentUserData") =>
        LET cached == encryptedSessionCacheData.user
            saved == currentUserData[1]
        IN  IF userDataToRefresh.present
            THEN /\ saved.userID = cached.userID
                 /\ \A f \in {"recoveryEmail", "unverifiedRecoveryEmail",
                              "walletAddress", "rootOrgID"} :
                        saved[f] = ClaimedRefresh(cached, userDataToRefresh, f)
                 /\ saved.publicData = userDataToRefresh.publicData
            ELSE saved = cached

----------------------------------------------------------------------------
\* C5: when the server query fails tryCachedLogin returns false without any
\* decryption attempt; an Apollo error whose first GraphQL error is NotFound,
\* BadRequest or NotAuthorized makes setNextIDAndReload run; any other error
\* changes no local storage, selects no next user and reloads nothing.
InvalidatingError(e) ==
    /\ e.apollo
    /\ e.graphQLErrors # <<>>
    /\ Head(e.graphQLErrors) \in {"NotFound", "BadRequest", "NotAuthorized"}

C5_AfterRejection ==
    queryError # <<>> =>
        /\ pc = "done"
        /\ result = "false"
        /\ Decrypts = <<>>
        /\ currentUserData = <<>>
        /\ IF InvalidatingError(queryError[1])
           THEN /\ Called("clearLatestUserIDCache")
                /\ Called("setNextUUID")
           ELSE /\ ~Called("clearLatestUserIDCache")
                /\ ~Called("setNextUUID")
                /\ ~Called("reload")
                /\ ~reloaded

C5_StorageKept ==
    (queryError = <<>> /\ queryError' # <<>> /\ ~InvalidatingError(queryError'[1]))
        => UNCHANGED <<perUser, legacy, latestUserID, reloaded, shouldReload>>

C5_QueryFailure == []C5_AfterRejection /\ [][C5_StorageKept]_vars

\* an Apollo error whose first GraphQL error is of another type left the
\* storage alone although another user could have been selected
C5_Witness ==
    /\ queryError # <<>>
    /\ queryError[1].apollo
    /\ Len(queryError[1].graphQLErrors) > 1
    /\ queryError[1].graphQLErrors[1] = "Other"
    /\ queryError[1].graphQLErrors[2] = "NotFound"
    /\ perUser["u2"] # NoBlob
    /\ result = "false"
    /\ ~reloaded

----------------------------------------------------------------------------
\* C7: in one invocation the steps run once and in order.  As claimed: the
\* blob is read from storage exactly once, before the server query; the query
\* is issued at most once; every decryption attempt uses the blob that was
\* read and comes after the query returned; the user is saved at most once
\* and only after decryption.
QueryOnceAfterRead ==
    /\ Count("query") <= 1
    /\ \A q \in Positions("query") :
          \E r \in Positions("getSessionCacheForLatestUser") : r < q

DecryptsUseReadBlobAfterQuery ==
    \A d \in Positions("decrypt") :
        /\ log[d].blob = encryptedSessionCacheData
        /\ Called("getSessionCacheForLatestUser")
        /\ \E q \in Positions("queryResolved") : q < d

SavedOnceAfterDecryption ==
    /\ Count("saveCurrentUserData") <= 1
    /\ \A v \in Positions("saveCurrentUserData") :
          \E d \in Positions("decrypt") :
              /\ d < v
              /\ DecryptSessionCacheData(log[d].blob, log[d].key) # <<>>

C7_StepsOnceInOrder_AsClaimed ==
    pc = "done" =>
        /\ Count("getSessionCacheForLatestUser") = 1
        /\ QueryOnceAfterRead
        /\ DecryptsUseReadBlobAfterQuery
        /\ SavedOnceAfterDecryption

\* C7 (amended): the blob is read at most once (exactly once unless
\* tryCachedLogin runs inside a frame, where it is not read at all) and before
\* the server query; the rest as claimed.
C7_StepsOnceInOrder ==
    /\ Count("getSessionCacheForLatestUser") <= 1
    /\ pc = "done" =>
          (Count("getSessionCacheForLatestUser") = IF inFrame THEN 0 ELSE 1)
    /\ QueryOnceAfterRead
    /\ DecryptsUseReadBlobAfterQuery
    /\ SavedOnceAfterDecryption

\* a complete run: read, query, two decryption attempts, save
C7_Witness ==
    /\ pc = "done"
    /\ ~inFrame
    /\ Count("getSessionCacheForLatestUser") = 1
    /\ Count("query") = 1
    /\ Len(Decrypts) = 2
    /\ Count("saveCurrentUserData") = 1

----------------------------------------------------------------------------
\* C8: when the primary key decrypts the blob and storage has no entry under
\* the per-user key of the decrypted user, the cache is written again with
\* the primary key and the legacy SESSION_CACHE entry is removed, the removal
\* after the write; when the per-user entry exists nothing is written to the
\* session cache and nothing is removed.
PrimaryDecrypted ==
    /\ Decrypts # <<>>
    /\ DecryptSessionCacheData(Decrypts[1].blob, Decrypts[1].key) # <<>>

C8_PrimaryStep ==
    (Decrypts = <<>> /\ PrimaryDecrypted') =>
        LET user == encryptedSessionCacheData.user
            added == SubSeq(log', Len(log) + 2, Len(log'))
        IN  IF perUser[user.userID] = NoBlob
            THEN /\ perUser' = [perUser EXCEPT ![user.userID] =
                                    EncryptSessionCacheData(user, cacheKey)]
                 /\ legacy' = NoBlob
                 /\ Len(added) = 2
                 /\ added[1].op = "writeSessionCacheData"
                 /\ added[1].key = cacheKey
                 /\ added[2].op = "removeLegacy"
            ELSE /\ UNCHANGED <<perUser, legacy>>
                 /\ added = <<>>

C8_NothingLater ==
    PrimaryDecrypted =>
        /\ UNCHANGED <<perUser, legacy, latestUserID>>
        /\ Positions("writeSessionCacheData")' = Positions("writeSessionCacheData")
        /\ Positions("removeLegacy")' = Positions("removeLegacy")

----------------------------------------------------------------------------
\* C9: on every successful cached login, and only then, the remedial actions
\* run after saveCurrentUserData: the user data goes to the mobile app exactly
\* when isMobileApp() is true, and the default-alias initialisation is
\* started; true is returned without waiting for that initialisation, whose
\* completion or failure never changes the returned value.
Before(opA, opB) ==
    \A b \in Positions(opB) : \E a \in Positions(opA) : a < b

C9_Remedial ==
    /\ result = "true" =>
          /\ Count("setDefaultEmailAlias") = 1
          /\ aliasState # "idle"
          /\ Called("sendUserDataToMobileApp") <=> mobileApp
          /\ mobileApp => mobileData = currentUserData
          /\ ~mobileApp => mobileData = <<>>
    /\ Before("saveCurrentUserData", "sendUserDataToMobileApp")
    /\ Before("saveCurrentUserData", "setDefaultEmailAlias")
    /\ Count("sendUserDataToMobileApp") <= 1
    /\ result = "false" =>
          /\ ~Called("sendUserDataToMobileApp")
          /\ ~Called("setDefaultEmailAlias")
          /\ aliasState = "idle"
          /\ mobileData = <<>>
    /\ Called("setDefaultEmailAlias") => result = "true"
    /\ aliasState # "idle" => result = "true"

C9_NotAwaited ==
    /\ (result = "pending" /\ result' = "true") => aliasState' = "querying"
    /\ result = "true" => result' = "true"

C9_RemedialActions == []C9_Remedial /\ [][C9_NotAwaited]_vars

\* the login succeeded on the mobile app and the alias initialisation failed
C9_Witness ==
    /\ result = "true"
    /\ mobileApp
    /\ mobileData = currentUserData
    /\ aliasState = "failed"

----------------------------------------------------------------------------
\* C10: when neither the primary key nor any alternative key decrypts the
\* blob, clearLatestUserIDCache runs, then setNextUUID, the page is reloaded
\* exactly when setNextUUID reported that a new user was set, and false is
\* returned.
AllKeysFailed ==
    /\ pc = "done"
    /\ Called("queryResolved")
    /\ NoServerKeyDecrypts

C10_MoveToAnotherUser ==
    AllKeysFailed =>
        /\ result = "false"
        /\ Len(Decrypts) = 1 + Len(alternativeCacheKeys)
        /\ shouldReload # <<>>
        /\ LET rest == SubSeq(log, Len(Decrypts) + 4, Len(log))
           IN  /\ Len(rest) >= 2
               /\ rest[1].op = "clearLatestUserIDCache"
               /\ rest[2].op = "setNextUUID"
               /\ IF shouldReload[1]
                  THEN Len(rest) = 3 /\ rest[3].op = "reload" /\ reloaded
                  ELSE Len(rest) = 2 /\ ~reloaded

\* no key decrypted and another user was selected: the page reloads
C10_Witness ==
    /\ AllKeysFailed
    /\ Len(Decrypts) = 3
    /\ encryptedSessionCacheData.kind = "enc"
    /\ shouldReload = <<TRUE>>
    /\ reloaded

----------------------------------------------------------------------------
\* C11: inside a frame tryCachedLogin returns false without reading the
\* session cache; without an encrypted session cache for the latest user it
\* returns false without querying the server; in both cases no storage is
\* written, no user is cleared or switched and nothing is reloaded.
ReturnedInFrame == pc = "done" /\ inFrame

ReturnedWithoutCache ==
    pc = "done" /\ ~inFrame /\ encryptedSessionCacheData = NoBlob

C11_EarlyReturn ==
    /\ ReturnedInFrame => result = "false" /\ log = <<>>
    /\ ReturnedWithoutCache =>
          result = "false" /\ log = <<Ev("getSessionCacheForLatestUser")>>
    /\ inFrame => ~Called("getSessionCacheForLatestUser")
    /\ ReturnedInFrame \/ ReturnedWithoutCache =>
          /\ ~reloaded
          /\ shouldReload = <<>>
          /\ currentUserData = <<>>

C11_NothingTouched ==
    /\ pc' = "done" /\ (inFrame \/ encryptedSessionCacheData' = NoBlob) =>
          UNCHANGED <<perUser, legacy, latestUserID, reloaded, shouldReload>>
    /\ ReturnedInFrame \/ ReturnedWithoutCache => UNCHANGED vars

C11_EarlyReturns == []C11_EarlyReturn /\ [][C11_NothingTouched]_vars

\* outside a frame, with another user's cache in storage but none for the
\* latest user, the function returned false
C11_Witness ==
    /\ ReturnedWithoutCache
    /\ Called("getSessionCacheForLatestUser")
    /\ perUser["u2"] # NoBlob
    /\ result = "false"

----------------------------------------------------------------------------
\* Ethereum provider selection (walletUtils.ts)

\* EthProvider; "Other" stands for a name the switch statements do not list
EthProviderNames == {"Coinbase", "MetaMask", "Brave", "Other"}

\* the flags an injected provider object carries
ProviderFlags ==
    [isCoinbaseWallet : BOOLEAN, isMetaMask : BOOLEAN, isBraveWallet : BOOLEAN]

\* window.ethereum: its own flags and, with several wallets, the providers list
EthereumObjects ==
    [isCoinbaseWallet : BOOLEAN, isMetaMask : BOOLEAN, isBraveWallet : BOOLEAN,
     providers : {<<>>} \cup {<<l>> : l \in BoundedSeq(ProviderFlags, MaxProviders)}]

\* providers.find(({ flag }) => flag): the first element whose flag is set
Find(list, flag) ==
    IF \E i \in DOMAIN list : list[i][flag]
    THEN Listed(CHOOSE i \in DOMAIN list :
                    /\ list[i][flag]
                    /\ \A j \in DOMAIN list : list[j][flag] => i <= j)
    ELSE UndefinedProvider

\* getEthProvider(providerName) with window.ethereum = eth (optional)
getEthProvider(eth, name) ==
    IF eth = <<>> THEN UndefinedProvider
    ELSE IF eth[1].providers = <<>>
    THEN CASE name = "Coinbase" ->
                 IF eth[1].isCoinbaseWallet THEN EthereumItself ELSE UndefinedProvider
           [] name = "MetaMask" ->
                 IF eth[1].isMetaMask THEN EthereumItself ELSE UndefinedProvider
           [] name = "Brave" ->
                 IF eth[1].isBraveWallet THEN EthereumItself ELSE UndefinedProvider
           [] OTHER -> UndefinedProvider
    ELSE CASE name = "Coinbase" ->
                 Find(eth[1].providers[1], "isCoinbaseWallet")
           [] name = "MetaMask" ->
                 Find(eth[1].providers[1], "isMetaMask")
           [] name = "Brave" ->
                 Find(eth[1].providers[1], "isBraveWallet")
           [] OTHER -> UndefinedProvider

\* variant: the comparison with window.ethereum is missing
ShouldSelect_NoIdentityTest(found) == found # UndefinedProvider

\* if (provider && provider !== ethereum)
ShouldSelect(found) == found # UndefinedProvider /\ found # EthereumItself

\* activateEthProvider: const provider = getEthProvider(providerName)
LookupProvider ==
    /\ epc = "input"
    /\ provider' = getEthProvider(ethereum, providerName)
    /\ epc' = "found"
    /\ UNCHANGED <<ethereum, providerName, selectedProvider, setSelectedCalls,
                   ethThrew, ethReturned>>
    /\ UNCHANGED nonEthVars

\* activateEthProvider: the conditional ethereum.setSelectedProvider(provider)
\* and the return
SelectAndReturn ==
    /\ epc = "found"
    /\ IF ShouldSelect(provider)
       THEN IF ethereum = <<>>
            THEN /\ ethThrew' = TRUE
                 /\ UNCHANGED <<selectedProvider, setSelectedCalls, ethReturned>>
            ELSE /\ selectedProvider' = <<provider>>
                 /\ setSelectedCalls' = setSelectedCalls + 1
                 /\ ethReturned' = <<provider>>
                 /\ UNCHANGED ethThrew
       ELSE /\ ethReturned' = <<provider>>
            /\ UNCHANGED <<selectedProvider, setSelectedCalls, ethThrew>>
    /\ epc' = "done"
    /\ UNCHANGED <<ethereum, providerName, provider>>
    /\ UNCHANGED nonEthVars

EthInit ==
    /\ epc = "input"
    /\ ethereum \in {<<>>} \cup {<<e>> : e \in EthereumObjects}
    /\ providerName \in EthProviderNames
    /\ provider = UndefinedProvider
    /\ selectedProvider = <<>>
    /\ setSelectedCalls = 0
    /\ ethThrew = FALSE
    /\ ethReturned = <<>>

EthSpecInit == LoginIdle /\ WalletIdle /\ EthInit /\ BuildIdle

EthNext == LookupProvider \/ SelectAndReturn

SpecEth == EthSpecInit /\ [][EthNext]_vars

----------------------------------------------------------------------------
\* C12: activateEthProvider(name) returns the provider object that
\* corresponds to name, or undefined when no wallet is injected or none
\* matches; ethereum.setSelectedProvider is called only when a matching
\* provider was found that is not window.ethereum itself, so with a single
\* injected wallet (no providers list) the selected provider never changes,
\* and window.ethereum is never dereferenced when it is absent.
HasFlag(obj, name) ==
    \/ name = "Coinbase" /\ obj.isCoinbaseWallet
    \/ name = "MetaMask" /\ obj.isMetaMask
    \/ name = "Brave" /\ obj.isBraveWallet

\* the objects among which activateEthProvider looks for a provider
Candidates ==
    IF ethereum = <<>> THEN {}
    ELSE IF ethereum[1].providers = <<>> THEN {EthereumItself}
    ELSE {Listed(i) : i \in DOMAIN ethereum[1].providers[1]}

ObjectOf(p) ==
    IF p.kind = "listed" THEN ethereum[1].providers[1][p.index]
    ELSE [isCoinbaseWallet |-> ethereum[1].isCoinbaseWallet,
          isMetaMask |-> ethereum[1].isMetaMask,
          isBraveWallet |-> ethereum[1].isBraveWallet]

Matching == {p \in Candidates : HasFlag(ObjectOf(p), providerName)}

C12_ActivateEthProvider ==
    /\ ~ethThrew
    /\ setSelectedCalls <= 1
    /\ ethereum = <<>> => selectedProvider = <<>> /\ setSelectedCalls = 0
    /\ (ethereum # <<>> /\ ethereum[1].providers = <<>>) =>
          selectedProvider = <<>> /\ setSelectedCalls = 0
    /\ setSelectedCalls > 0 =>
          /\ provider \in Matching
          /\ provider # EthereumItself
          /\ selectedProvider = <<provider>>
    /\ epc = "done" =>
          /\ ethReturned # <<>>
          /\ ethReturned[1] = UndefinedProvider <=> Matching = {}
          /\ ethReturned[1] # UndefinedProvider =>
                /\ ethReturned[1] \in Matching
                /\ \A p \in Matching : ethReturned[1].index <= p.index

\* the second listed provider matched and was selected
C12_Witness ==
    /\ epc = "done"
    /\ ethReturned = <<Listed(2)>>
    /\ selectedProvider = <<Listed(2)>>
    /\ setSelectedCalls = 1
    /\ HasFlag([isCoinbaseWallet |-> ethereum[1].isCoinbaseWallet,
                isMetaMask |-> ethereum[1].isMetaMask,
                isBraveWallet |-> ethereum[1].isBraveWallet], providerName)

----------------------------------------------------------------------------
\* Build script

\* the command given to spawn
TscCommand ==
    IF watch THEN "yarn tsc -b --preserveWatchOutput -w" ELSE "yarn tsc -b"

\* an 'exit' event carries the exit code (none when a signal ended the child)
ExitEvent(code) == [type |-> "exit", code |-> code]
ErrorEvent == [type |-> "error", code |-> <<>>]
ExitCodes == {<<>>, <<0>>, <<1>>}

Emitted(type) == \E i \in DOMAIN childEvents : childEvents[i].type = type

\* resolve/reject of a promise: only a pending promise changes state
Settle(promise, outcome) == IF promise = "pending" THEN outcome ELSE promise

\* Promise.all over the three promises: what it settles to, if anything yet
PromiseAll ==
    IF "rejected" \in {cjsBuild, esmBuild, tscPromise} THEN "rejected"
    ELSE IF {cjsBuild, esmBuild, tscPromise} = {"fulfilled"} THEN "fulfilled"
    ELSE "pending"

\* a promise reaction is queued: it runs before any further event is handled
MicrotaskReady ==
    \/ allPromise = "pending" /\ PromiseAll # "pending"
    \/ allPromise \in {"fulfilled", "rejected"} /\ processExit = <<>>

\* the process is alive and its event loop takes the next event
EventLoopIdle == allPromise # "unstarted" /\ processExit = <<>> /\ ~MicrotaskReady

\* the three tasks are started and Promise.all is called on their promises
StartBuild ==
    /\ allPromise = "unstarted"
    /\ allPromise' = "pending"
    /\ UNCHANGED <<watch, cjsBuild, esmBuild, childEvents, tscPromise,
                   tscSettlements, processExit>>
    /\ UNCHANGED nonBuildVars

\* esbuild.build(esbuildConf('cjs')) settles
CjsBuildSettles(outcome) ==
    /\ EventLoopIdle
    /\ cjsBuild = "pending"
    /\ cjsBuild' = outcome
    /\ UNCHANGED <<watch, esmBuild, childEvents, tscPromise, tscSettlements,
                   allPromise, processExit>>
    /\ UNCHANGED nonBuildVars

\* esbuild.build(esbuildConf('esm')) settles
EsmBuildSettles(outcome) ==
    /\ EventLoopIdle
    /\ esmBuild = "pending"
    /\ esmBuild' = outcome
    /\ UNCHANGED <<watch, cjsBuild, childEvents, tscPromise, tscSettlements,
                   allPromise, processExit>>
    /\ UNCHANGED nonBuildVars

\* variant: the exit code is not looked at
ExitOutcome_AlwaysResolve(code) == "fulfilled"

\* the 'exit' listener: reject unless code is 0
ExitOutcome(code) == IF code # <<0>> THEN "rejected" ELSE "fulfilled"

\* childProcess.once('exit', ...): the child's 'exit' event
ChildExits(code) ==
    /\ EventLoopIdle
    /\ ~Emitted("exit")
    /\ childEvents' = Append(childEvents, ExitEvent(code))
    /\ tscPromise' = Settle(tscPromise, ExitOutcome(code))
    /\ tscSettlements' = tscSettlements + (IF tscPromise' # tscPromise THEN 1 ELSE 0)
    /\ UNCHANGED <<watch, cjsBuild, esmBuild, allPromise, processExit>>
    /\ UNCHANGED nonBuildVars

\* childProcess.once('error', ...): the child's 'error' event
ChildErrors ==
    /\ EventLoopIdle
    /\ ~Emitted("error")
    /\ childEvents' = Append(childEvents, ErrorEvent)
    /\ tscPromise' = Settle(tscPromise, "rejected")
    /\ tscSettlements' = tscSettlements + (IF tscPromise' # tscPromise THEN 1 ELSE 0)
    /\ UNCHANGED <<watch, cjsBuild, esmBuild, allPromise, processExit>>
    /\ UNCHANGED nonBuildVars

\* the promise of Promise.all settles
PromiseAllSettles ==
    /\ allPromise = "pending"
    /\ PromiseAll # "pending"
    /\ allPromise' = PromiseAll
    /\ UNCHANGED <<watch, cjsBuild, esmBuild, childEvents, tscPromise,
                   tscSettlements, processExit>>
    /\ UNCHANGED nonBuildVars

\* .then(() => process.exit(0)) / .catch((e) => process.exit(1))
HandlerExits ==
    /\ allPromise \in {"fulfilled", "rejected"}
    /\ processExit = <<>>
    /\ processExit' = IF allPromise = "fulfilled" THEN <<0>> ELSE <<1>>
    /\ UNCHANGED <<watch, cjsBuild, esmBuild, childEvents, tscPromise,
                   tscSettlements, allPromise>>
    /\ UNCHANGED nonBuildVars

BuildInit ==
    /\ watch \in BOOLEAN
    /\ cjsBuild = "pending"
    /\ esmBuild = "pending"
    /\ childEvents = <<>>
    /\ tscPromise = "pending"
    /\ tscSettlements = 0
    /\ allPromise = "unstarted"
    /\ processExit = <<>>

BuildSpecInit == LoginIdle /\ WalletIdle /\ EthIdle /\ BuildInit

BuildNext ==
    \/ StartBuild
    \/ \E outcome \in {"fulfilled", "rejected"} : CjsBuildSettles(outcome)
    \/ \E outcome \in {"fulfilled", "rejected"} : EsmBuildSettles(outcome)
    \/ \E code \in ExitCodes : ChildExits(code)
    \/ ChildErrors
    \/ PromiseAllSettles
    \/ HandlerExits

SpecBuild == BuildSpecInit /\ [][BuildNext]_vars

----------------------------------------------------------------------------
\* C13: the cjs build, the esm build and the tsc process run concurrently;
\* the script exits with code 0 exactly when all three completed successfully
\* (the tsc child exited with code 0) and with code 1 as soon as one of them
\* fails, in whatever order they finish; the promise returned by spawn is
\* settled exactly once even when both 'exit' and 'error' fire.
\* The tsc task has failed when the first event of the child is an 'error' or
\* an 'exit' with a code other than 0.
TscExitedZero == \E i \in DOMAIN childEvents : childEvents[i] = ExitEvent(<<0>>)

TscFailed == childEvents # <<>> /\ childEvents[1] # ExitEvent(<<0>>)

AllSucceeded ==
    cjsBuild = "fulfilled" /\ esmBuild = "fulfilled" /\ TscExitedZero

AnyFailed == cjsBuild = "rejected" \/ esmBuild = "rejected" \/ TscFailed

C13_ExitCode ==
    /\ processExit \in {<<>>, <<0>>, <<1>>}
    /\ processExit = <<0>> => AllSucceeded /\ ~AnyFailed
    /\ processExit = <<1>> => AnyFailed
    /\ (AllSucceeded \/ AnyFailed) /\ processExit = <<>> => MicrotaskReady
    /\ tscSettlements <= 1
    /\ tscSettlements = 1 <=> childEvents # <<>>
    /\ tscPromise = (IF childEvents = <<>> THEN "pending"
                     ELSE IF TscFailed THEN "rejected" ELSE "fulfilled")

C13_NoEventBeforeExit ==
    /\ AllSucceeded \/ AnyFailed =>
          UNCHANGED <<cjsBuild, esmBuild, childEvents, tscPromise>>
    /\ processExit # <<>> => UNCHANGED vars
    /\ tscPromise # "pending" => tscPromise' = tscPromise

C13_BuildExit == []C13_ExitCode /\ [][C13_NoEventBeforeExit]_vars

\* the esm build finished first, the child emitted 'exit' with code 0 and
\* then 'error', the cjs build finished last: the script exited with code 0
C13_Witness ==
    /\ processExit = <<0>>
    /\ childEvents = <<ExitEvent(<<0>>), ErrorEvent>>
    /\ tscSettlements = 1

====
